---- MODULE Spec2Model ----
(***************************************************************************)
(* Differential operators on cylindrical grids                             *)
(* (pde/grids/operators/cylindrical.py).                                   *)
(*                                                                         *)
(* The state machine has one action per operation of the module: the       *)
(* construction of a kernel (make_operator and the builders it calls),     *)
(* the call of a scalar kernel, and the blocks of the kernel's loop over   *)
(* the axial index j (line 67/132/190): the block of the innermost radial  *)
(* cell, the block of one bulk radial cell and the block of the outermost  *)
(* radial cell.  With parallel=True the iterations of nb.prange run        *)
(* concurrently, so their blocks interleave; otherwise they run in order.  *)
(* A composed kernel (vector_gradient, vector_laplace, tensor_divergence)  *)
(* calls its three component kernels one after the other, each running     *)
(* the loop of a scalar kernel on its views of the arrays.                 *)
(*                                                                         *)
(* Spec has the scalar kernels on every input, SpecKernels all six kernels *)
(* on fewer inputs, SpecRepeat repeated calls of one kernel and SpecNoFlux *)
(* the laplace kernels of grids without flux through their faces.          *)
(*                                                                         *)
(* Real numbers are exact rationals <<n, d>> (d > 0, lowest terms).        *)
(***************************************************************************)
EXTENDS Integers, Sequences, FiniteSets, TLC

(***************************************************************************)
(* Bounds of the model                                                     *)
(***************************************************************************)
\* largest radial and axial point counts of a grid
MaxR == 3
MaxZ == 2

(***************************************************************************)
(* Exact rational arithmetic                                               *)
(***************************************************************************)
RECURSIVE GCD(_, _)
GCD(a, b) == IF b = 0 THEN a ELSE GCD(b, a % b)

Abs(n) == IF n < 0 THEN -n ELSE n

Norm(n, d) ==
  LET s == IF d < 0 THEN -1 ELSE 1
      g == GCD(Abs(n), Abs(d))
  IN  <<(s * n) \div g, (s * d) \div g>>

Q(n) == <<n, 1>>

Add(x, y) == Norm(x[1] * y[2] + y[1] * x[2], x[2] * y[2])

Sub(x, y) == Norm(x[1] * y[2] - y[1] * x[2], x[2] * y[2])

Mul(x, y) == Norm(x[1] * y[1], x[2] * y[2])

Div(x, y) == Norm(x[1] * y[2], x[2] * y[1])

(***************************************************************************)
(* Grids and boundary conditions handed to the builders                    *)
(***************************************************************************)
\* number of components of a vector field (radial, axial, azimuthal)
NumComp == 3

Shapes == (1..MaxR) \X (1..MaxZ)

\* grid.discretization = (dr, dz)
Discretizations == { <<Norm(1, 2), Q(1)>> }

\* conditions at the outer radial face and at both axial faces
RadialBCs == {[type |-> "value", value |-> 3],
              [type |-> "derivative", value |-> 0]}

AxialBCs == {[type |-> "periodic", value |-> 0],
             [type |-> "derivative", value |-> 3]}

GridTypes == {"CylindricalGrid", "CartesianGrid"}
Ranks == 0..2

\* conditions of a scalar field on a cylinder without flux through its
\* faces: zero derivative at the outer radial face, periodic or zero
\* derivative along the axis
NoFluxBoundaries ==
  [grid : {"CylindricalGrid"}, rank : {0}, shape : Shapes,
   discretization : Discretizations,
   r_high : {[type |-> "derivative", value |-> 0]},
   z : {[type |-> "periodic", value |-> 0],
        [type |-> "derivative", value |-> 0]}]

BoundariesSet ==
  [grid : GridTypes, rank : Ranks, shape : Shapes,
   discretization : Discretizations, r_high : RadialBCs, z : AxialBCs]

\* bcs.check_value_rank(rank): TRUE iff it returns without raising
check_value_rank(bcs, rank) == bcs.rank = rank

\* bcs.extract_component(c): the conditions of component c of the field;
\* component c of a vector-valued boundary value v is v + c
extract_component(bcs, c) ==
  [bcs EXCEPT !.rank = @ - 1, !.r_high.value = @ + c]

\* value of the virtual point behind a boundary whose last cell holds `edge`
VirtualPoint(bc, edge, dx) ==
  IF bc.type = "value"
    THEN Sub(Mul(Q(2), Q(bc.value)), edge)
    ELSE Add(edge, Mul(dx, Q(bc.value)))

(***************************************************************************)
(* Builders                                                                *)
(***************************************************************************)
\* model value of PARALLELIZATION_THRESHOLD_2D, scaled to the grids above
PARALLELIZATION_THRESHOLD_2D == 2

NoKernel == [op |-> "none"]

OpNames == {"laplace", "laplacian", "gradient", "divergence",
            "vector_gradient", "tensor_divergence", "vector_laplace",
            "curl"}

\* Parallel with > in place of >=
Parallel_strict(bcs) ==
  bcs.shape[1] * bcs.shape[2] >
     PARALLELIZATION_THRESHOLD_2D * PARALLELIZATION_THRESHOLD_2D

Parallel(bcs) ==
  bcs.shape[1] * bcs.shape[2] >=
     PARALLELIZATION_THRESHOLD_2D * PARALLELIZATION_THRESHOLD_2D

ScalarKernel(name, bcs) ==
  [op |-> name,
   dim_r |-> bcs.shape[1], dim_z |-> bcs.shape[2],
   dr |-> bcs.discretization[1], dz |-> bcs.discretization[2],
   bc_r |-> bcs.r_high, bc_z |-> bcs.z,
   parallel |-> Parallel(bcs),
   comps |-> <<>>]

\* ScalarBuilder without the call of check_value_rank
ScalarBuilder_unchecked(name, bcs) ==
  IF bcs.grid # "CylindricalGrid"
    THEN [err |-> "AssertionError", kernel |-> NoKernel]
  ELSE [err |-> "none", kernel |-> ScalarKernel(name, bcs)]

\* the start of every scalar builder: grid type, then rank, then the closure
ScalarBuilder(name, bcs) ==
  IF bcs.grid # "CylindricalGrid"
    THEN [err |-> "AssertionError", kernel |-> NoKernel]
  ELSE IF ~check_value_rank(bcs, 0)
    THEN [err |-> "RankError", kernel |-> NoKernel]
  ELSE [err |-> "none", kernel |-> ScalarKernel(name, bcs)]

make_laplace(bcs) == ScalarBuilder("laplace", bcs)

make_gradient(bcs) == ScalarBuilder("gradient", bcs)

make_divergence(bcs) == ScalarBuilder("divergence", bcs)

\* the kernel of a composed builder, from its three component kernels
ComposedKernel(name, bcs, k0, k1, k2) ==
  [op |-> name,
   dim_r |-> bcs.shape[1], dim_z |-> bcs.shape[2],
   dr |-> bcs.discretization[1], dz |-> bcs.discretization[2],
   bc_r |-> bcs.r_high, bc_z |-> bcs.z,
   parallel |-> FALSE,
   comps |-> <<k0, k1, k2>>]

\* the result of a composed builder once grid type and rank have passed:
\* the first error of the three component builders, or the kernel
Composed(name, bcs, r0, r1, r2) ==
  IF r0.err # "none" THEN r0
  ELSE IF r1.err # "none" THEN r1
  ELSE IF r2.err # "none" THEN r2
  ELSE [err |-> "none",
        kernel |-> ComposedKernel(name, bcs, r0.kernel, r1.kernel, r2.kernel)]

make_vector_gradient(bcs) ==
  IF bcs.grid # "CylindricalGrid"
    THEN [err |-> "AssertionError", kernel |-> NoKernel]
  ELSE IF ~check_value_rank(bcs, 1)
    THEN [err |-> "RankError", kernel |-> NoKernel]
  ELSE Composed("vector_gradient", bcs,
                make_gradient(extract_component(bcs, 0)),
                make_gradient(extract_component(bcs, 1)),
                make_gradient(extract_component(bcs, 2)))

make_vector_laplace(bcs) ==
  IF bcs.grid # "CylindricalGrid"
    THEN [err |-> "AssertionError", kernel |-> NoKernel]
  ELSE IF ~check_value_rank(bcs, 1)
    THEN [err |-> "RankError", kernel |-> NoKernel]
  ELSE Composed("vector_laplace", bcs,
                make_laplace(extract_component(bcs, 0)),
                make_laplace(extract_component(bcs, 1)),
                make_laplace(extract_component(bcs, 2)))

make_tensor_divergence(bcs) ==
  IF bcs.grid # "CylindricalGrid"
    THEN [err |-> "AssertionError", kernel |-> NoKernel]
  ELSE IF ~check_value_rank(bcs, 1)
    THEN [err |-> "RankError", kernel |-> NoKernel]
  ELSE Composed("tensor_divergence", bcs,
                make_divergence(extract_component(bcs, 0)),
                make_divergence(extract_component(bcs, 1)),
                make_divergence(extract_component(bcs, 2)))

\* Dispatch with an entry for the vector_laplace builder
Dispatch_vector_laplace(op) ==
  IF op = "laplace" \/ op = "laplacian" THEN "make_laplace"
  ELSE IF op = "gradient" THEN "make_gradient"
  ELSE IF op = "divergence" THEN "make_divergence"
  ELSE IF op = "vector_gradient" THEN "make_vector_gradient"
  ELSE IF op = "vector_laplace" THEN "make_vector_laplace"
  ELSE IF op = "tensor_divergence" THEN "make_tensor_divergence"
  ELSE "none"

\* the builder make_operator hands `op` to ("none": the else branch)
Dispatch(op) ==
  IF op = "laplace" \/ op = "laplacian" THEN "make_laplace"
  ELSE IF op = "gradient" THEN "make_gradient"
  ELSE IF op = "divergence" THEN "make_divergence"
  ELSE IF op = "vector_gradient" THEN "make_vector_gradient"
  ELSE IF op = "tensor_divergence" THEN "make_tensor_divergence"
  ELSE "none"

CallBuilder(builder, bcs) ==
  CASE builder = "make_laplace" -> make_laplace(bcs)
    [] builder = "make_gradient" -> make_gradient(bcs)
    [] builder = "make_divergence" -> make_divergence(bcs)
    [] builder = "make_vector_gradient" -> make_vector_gradient(bcs)
    [] builder = "make_vector_laplace" -> make_vector_laplace(bcs)
    [] builder = "make_tensor_divergence" -> make_tensor_divergence(bcs)

make_operator(op, bcs) ==
  LET b == Dispatch(op)
  IN  IF b = "none"
        THEN [builder |-> "none", err |-> "NotImplementedError",
              kernel |-> NoKernel]
        ELSE LET r == CallBuilder(b, bcs)
             IN  [builder |-> b, err |-> r.err, kernel |-> r.kernel]

(***************************************************************************)
(* Arrays.  A scalar array maps <<i, j>> to a number, an array of          *)
(* components maps <<c, i, j>>.                                            *)
(***************************************************************************)
Cells(k) == (0..(k.dim_r - 1)) \X (0..(k.dim_z - 1))

CompCells(k) == (0..(NumComp - 1)) \X (0..(k.dim_r - 1)) \X (0..(k.dim_z - 1))

\* arr[c]: the view of component c
Comp(a, k, c) == [x \in Cells(k) |-> a[<<c, x[1], x[2]>>]]

\* the index tuples of an array of shape s (two to four axes)
Indices(s) ==
  IF Len(s) = 2 THEN (0..(s[1] - 1)) \X (0..(s[2] - 1))
  ELSE IF Len(s) = 3
    THEN (0..(s[1] - 1)) \X (0..(s[2] - 1)) \X (0..(s[3] - 1))
  ELSE (0..(s[1] - 1)) \X (0..(s[2] - 1)) \X (0..(s[3] - 1))
         \X (0..(s[4] - 1))

\* out_shape with (3,) + shape for the vector gradient
out_shape_vector(k) ==
  IF k.op \in {"laplace", "divergence"} THEN <<k.dim_r, k.dim_z>>
  ELSE <<NumComp, k.dim_r, k.dim_z>>

\* the out_shape handed to jit_allocate_out by the builder of kernel k
out_shape(k) ==
  IF k.op \in {"laplace", "divergence"} THEN <<k.dim_r, k.dim_z>>
  ELSE IF k.op \in {"gradient", "vector_laplace", "tensor_divergence"}
    THEN <<NumComp, k.dim_r, k.dim_z>>
  ELSE <<NumComp, NumComp, k.dim_r, k.dim_z>>

\* the shape of the array kernel k is applied to: a scalar field, a vector
\* field or a tensor field on the grid
arr_shape(k) ==
  IF k.op \in {"laplace", "gradient"} THEN <<k.dim_r, k.dim_z>>
  ELSE IF k.op \in {"divergence", "vector_gradient", "vector_laplace"}
    THEN <<NumComp, k.dim_r, k.dim_z>>
  ELSE <<NumComp, NumComp, k.dim_r, k.dim_z>>

\* jit_allocate_out: the array allocated for a call that passes no out,
\* every cell holding what the memory held (f)
jit_allocate_out(shape, f) == [x \in Indices(shape) |-> f]

\* index sets of the array a kernel reads and of the array it writes
ArrIdx(k) == Indices(arr_shape(k))

OutIdx(k) == Indices(out_shape(k))

\* a negative index counts from the end of the axis
WrapIndex(i, n) == IF i < 0 THEN i + n ELSE i

\* is the radial index i inside an axis of dim_r points?
InBounds(k, i) == WrapIndex(i, k.dim_r) \in 0..(k.dim_r - 1)

\* arr[i, j] as the kernel reads it; g is what lies behind the array
Rd(k, a, g, i, j) ==
  IF InBounds(k, i) THEN a[<<WrapIndex(i, k.dim_r), j>>] ELSE g

\* region_z(arr, (i, j)) = (arr_z_l, arr_c, arr_z_h)
region_z(k, a, i, j) ==
  LET lo == IF j > 0 THEN a[<<i, j - 1>>]
            ELSE IF k.bc_z.type = "periodic" THEN a[<<i, k.dim_z - 1>>]
            ELSE VirtualPoint(k.bc_z, a[<<i, 0>>], k.dz)
      hi == IF j < k.dim_z - 1 THEN a[<<i, j + 1>>]
            ELSE IF k.bc_z.type = "periodic" THEN a[<<i, 0>>]
            ELSE VirtualPoint(k.bc_z, a[<<i, k.dim_z - 1>>], k.dz)
  IN  <<lo, a[<<i, j>>], hi>>

\* value_outer(arr, (i, j)): the virtual point behind the outer radial face
value_outer(k, a, i, j) == VirtualPoint(k.bc_r, a[<<k.dim_r - 1, j>>], k.dr)

(***************************************************************************)
(* Preliminary quantities of the builders                                  *)
(***************************************************************************)
dr_2(k) == Div(Q(1), Mul(k.dr, k.dr))

dz_2(k) == Div(Q(1), Mul(k.dz, k.dz))

scale_r(k) == Div(Q(1), Mul(Q(2), k.dr))

scale_z(k) == Div(Q(1), Mul(Q(2), k.dz))

(***************************************************************************)
(* laplace: the value written to out[i, j] by each block                   *)
(***************************************************************************)
\* LaplaceInner with a plain forward difference in place of the reflection
LaplaceInner_unreflected(k, a, g, j) ==
  LET i == 0
      r == region_z(k, a, i, j)
  IN  Add(Mul(Sub(Rd(k, a, g, i + 1, j), r[2]), dr_2(k)),
          Mul(Add(Sub(r[1], Mul(Q(2), r[2])), r[3]), dz_2(k)))

LaplaceInner(k, a, g, j) ==
  LET i == 0
      r == region_z(k, a, i, j)
  IN  Add(Mul(Mul(Q(2), Sub(Rd(k, a, g, i + 1, j), r[2])), dr_2(k)),
          Mul(Add(Sub(r[1], Mul(Q(2), r[2])), r[3]), dz_2(k)))

LaplaceBulk(k, a, g, i, j) ==
  LET r == region_z(k, a, i, j)
      arr_r_l == Rd(k, a, g, i - 1, j)
      arr_r_h == Rd(k, a, g, i + 1, j)
  IN  Add(Add(Mul(Add(Sub(arr_r_h, Mul(Q(2), r[2])), arr_r_l), dr_2(k)),
              Mul(Div(Sub(arr_r_h, arr_r_l), Q(2 * i + 1)), dr_2(k))),
          Mul(Add(Sub(r[1], Mul(Q(2), r[2])), r[3]), dz_2(k)))

\* LaplaceOuter without the term of the first radial derivative
LaplaceOuter_nometric(k, a, g, j) ==
  LET i == k.dim_r - 1
      r == region_z(k, a, i, j)
      arr_r_l == Rd(k, a, g, i - 1, j)
      arr_r_h == value_outer(k, a, i, j)
  IN  Add(Mul(Add(Sub(arr_r_h, Mul(Q(2), r[2])), arr_r_l), dr_2(k)),
          Mul(Add(Sub(r[1], Mul(Q(2), r[2])), r[3]), dz_2(k)))

LaplaceOuter(k, a, g, j) ==
  LET i == k.dim_r - 1
      r == region_z(k, a, i, j)
      arr_r_l == Rd(k, a, g, i - 1, j)
      arr_r_h == value_outer(k, a, i, j)
  IN  Add(Add(Mul(Add(Sub(arr_r_h, Mul(Q(2), r[2])), arr_r_l), dr_2(k)),
              Mul(Div(Sub(arr_r_h, arr_r_l), Q(2 * i + 1)), dr_2(k))),
          Mul(Add(Sub(r[1], Mul(Q(2), r[2])), r[3]), dz_2(k)))

(***************************************************************************)
(* gradient: the values written to out[0, i, j], out[1, i, j], out[2, i, j]*)
(***************************************************************************)
GradientInner(k, a, g, j) ==
  LET i == 0
      r == region_z(k, a, i, j)
  IN  << Mul(Sub(Rd(k, a, g, 1, i), Rd(k, a, g, 0, i)), scale_r(k)),
         Mul(Sub(r[3], r[1]), scale_z(k)),
         Q(0) >>

\* GradientBulk without the assignment out[2, i, j] = 0: the cell keeps
\* what out held
GradientBulk_stale(k, a, g, i, j) ==
  LET r == region_z(k, a, i, j)
  IN  << Mul(Sub(Rd(k, a, g, i + 1, j), Rd(k, a, g, i - 1, j)), scale_r(k)),
         Mul(Sub(r[3], r[1]), scale_z(k)),
         Q(7) >>

GradientBulk(k, a, g, i, j) ==
  LET r == region_z(k, a, i, j)
  IN  << Mul(Sub(Rd(k, a, g, i + 1, j), Rd(k, a, g, i - 1, j)), scale_r(k)),
         Mul(Sub(r[3], r[1]), scale_z(k)),
         Q(0) >>

\* GradientOuter with the last cell in place of the virtual point
GradientOuter_noghost(k, a, g, j) ==
  LET i == k.dim_r - 1
      r == region_z(k, a, i, j)
      arr_r_h == a[<<i, j>>]
  IN  << Mul(Sub(arr_r_h, Rd(k, a, g, i - 1, j)), scale_r(k)),
         Mul(Sub(r[3], r[1]), scale_z(k)),
         Q(0) >>

GradientOuter(k, a, g, j) ==
  LET i == k.dim_r - 1
      r == region_z(k, a, i, j)
      arr_r_h == value_outer(k, a, i, j)
  IN  << Mul(Sub(arr_r_h, Rd(k, a, g, i - 1, j)), scale_r(k)),
         Mul(Sub(r[3], r[1]), scale_z(k)),
         Q(0) >>

(***************************************************************************)
(* divergence: the value written to out[i, j]; a0 = arr[0], a1 = arr[1]    *)
(***************************************************************************)
\* (i + 0.5) * dr
Radius(k, i) == Mul(Norm(2 * i + 1, 2), k.dr)

\* DivergenceInner with a plain forward difference of the radial component
DivergenceInner_forward(k, a0, a1, g, j) ==
  LET i == 0
      r == region_z(k, a1, i, j)
      d_r == Mul(Sub(Rd(k, a0, g, 1, j), Rd(k, a0, g, 0, j)), scale_r(k))
      d_z == Mul(Sub(r[3], r[1]), scale_z(k))
  IN  Add(d_r, d_z)

DivergenceInner(k, a0, a1, g, j) ==
  LET i == 0
      r == region_z(k, a1, i, j)
      d_r == Mul(Add(Rd(k, a0, g, 1, j), Mul(Q(3), Rd(k, a0, g, 0, j))),
                 scale_r(k))
      d_z == Mul(Sub(r[3], r[1]), scale_z(k))
  IN  Add(d_r, d_z)

DivergenceBulk(k, a0, a1, g, i, j) ==
  LET r == region_z(k, a1, i, j)
      d_r == Add(Mul(Sub(Rd(k, a0, g, i + 1, j), Rd(k, a0, g, i - 1, j)),
                     scale_r(k)),
                 Div(Rd(k, a0, g, i, j), Radius(k, i)))
      d_z == Mul(Sub(r[3], r[1]), scale_z(k))
  IN  Add(d_r, d_z)

DivergenceOuter(k, a0, a1, g, j) ==
  LET i == k.dim_r - 1
      r == region_z(k, a1, i, j)
      arr_r_h == value_outer(k, a0, i, j)
      d_r == Add(Mul(Sub(arr_r_h, Rd(k, a0, g, i - 1, j)), scale_r(k)),
                 Div(Rd(k, a0, g, i, j), Radius(k, i)))
      d_z == Mul(Sub(r[3], r[1]), scale_z(k))
  IN  Add(d_z, d_r)

(***************************************************************************)
(* The loop of a scalar kernel                                             *)
(***************************************************************************)
ScalarOps == {"laplace", "gradient", "divergence"}

\* blocks of one axial iteration: the innermost cell, the bulk cells
\* range(1, dim_r - 1), the outermost cell; laplace leaves the iteration
\* after the first block when dim_r == 1
NumBlocks(k) ==
  IF k.dim_r = 1
    THEN (IF k.op = "laplace" THEN 1 ELSE 2)
    ELSE k.dim_r

BlockKind(k, p) ==
  IF p = 0 THEN "inner"
  ELSE IF p = NumBlocks(k) - 1 THEN "outer"
  ELSE "bulk"

\* radial index i of block p
BlockRadius(k, p) ==
  IF BlockKind(k, p) = "inner" THEN 0
  ELSE IF BlockKind(k, p) = "outer" THEN k.dim_r - 1
  ELSE p

\* the cells <<i, j>> of the input a block indexes directly (arr[.., ..])
DirectReads(k, kind, i, j) ==
  CASE k.op = "laplace" /\ kind = "inner" -> {<<i + 1, j>>}
    [] k.op = "laplace" /\ kind = "bulk" -> {<<i - 1, j>>, <<i + 1, j>>}
    [] k.op = "laplace" /\ kind = "outer" -> {<<i - 1, j>>}
    [] k.op = "gradient" /\ kind = "inner" -> {<<1, i>>, <<0, i>>}
    [] k.op = "gradient" /\ kind = "bulk" -> {<<i + 1, j>>, <<i - 1, j>>}
    [] k.op = "gradient" /\ kind = "outer" -> {<<i - 1, j>>}
    [] k.op = "divergence" /\ kind = "inner" -> {<<1, j>>, <<0, j>>}
    [] k.op = "divergence" /\ kind = "bulk" ->
         {<<i + 1, j>>, <<i - 1, j>>, <<i, j>>}
    [] k.op = "divergence" /\ kind = "outer" -> {<<i - 1, j>>, <<i, j>>}

\* the cells region_z(arr, (i, j)) reads: the cell and its axial neighbours,
\* across the periodic seam, or the edge cell itself for a virtual point
RegionReads(k, i, j) ==
  {<<i, j>>}
    \cup {<<i, IF j > 0 THEN j - 1
              ELSE IF k.bc_z.type = "periodic" THEN k.dim_z - 1 ELSE 0>>}
    \cup {<<i, IF j < k.dim_z - 1 THEN j + 1
              ELSE IF k.bc_z.type = "periodic" THEN 0 ELSE k.dim_z - 1>>}

\* the cell value_outer(arr, (i, j)) reads: the outermost one of column j
OuterReads(k, i, j) == {<<k.dim_r - 1, j>>}

\* every cell <<i, j>> of the input a block reads
Reads(k, kind, i, j) ==
  DirectReads(k, kind, i, j) \cup RegionReads(k, i, j)
    \cup (IF kind = "outer" THEN OuterReads(k, i, j) ELSE {})

\* the direct reads of a block that fall outside the input array
OutOfBounds(k, kind, i, j) ==
  {x \in DirectReads(k, kind, i, j) : ~InBounds(k, x[1])}

\* OutIndex with every axial iteration assigning to the first axial slice
OutIndex_shared(k, c, i, j) ==
  IF k.op = "gradient" THEN <<c, i, 0>> ELSE <<i, 0>>

\* the subscript of an assignment: out[c, i, j] (gradient) or out[i, j]
OutIndex(k, c, i, j) == IF k.op = "gradient" THEN <<c, i, j>> ELSE <<i, j>>

\* the cells of out a block assigns, with the values assigned
Writes(k, a, g, kind, i, j) ==
  CASE k.op = "laplace" ->
         LET v == CASE kind = "inner" -> LaplaceInner(k, a, g, j)
                    [] kind = "bulk" -> LaplaceBulk(k, a, g, i, j)
                    [] kind = "outer" -> LaplaceOuter(k, a, g, j)
         IN  [x \in {OutIndex(k, 0, i, j)} |-> v]
    [] k.op = "gradient" ->
         LET v == CASE kind = "inner" -> GradientInner(k, a, g, j)
                    [] kind = "bulk" -> GradientBulk(k, a, g, i, j)
                    [] kind = "outer" -> GradientOuter(k, a, g, j)
         IN  [x \in {OutIndex(k, c, i, j) : c \in 0..(NumComp - 1)} |->
                v[x[1] + 1]]
    [] k.op = "divergence" ->
         LET a0 == Comp(a, k, 0)
             a1 == Comp(a, k, 1)
             v == CASE kind = "inner" -> DivergenceInner(k, a0, a1, g, j)
                    [] kind = "bulk" -> DivergenceBulk(k, a0, a1, g, i, j)
                    [] kind = "outer" -> DivergenceOuter(k, a0, a1, g, j)
         IN  [x \in {OutIndex(k, 0, i, j)} |-> v]

Overwrite(o, w) == [x \in DOMAIN o |-> IF x \in DOMAIN w THEN w[x] ELSE o[x]]

\* the input array after out has become o.  When the caller passes an out
\* that shares memory with arr (al): laplace(arr, out=arr),
\* gradient(out[0], out=out), divergence(arr, out=arr[0])
Sync(k, al, a, o) ==
  IF ~al THEN a
  ELSE IF k.op = "laplace" THEN o
  ELSE IF k.op = "gradient" THEN [x \in Cells(k) |-> o[<<0, x[1], x[2]>>]]
  ELSE [x \in CompCells(k) |-> IF x[1] = 0 THEN o[<<x[2], x[3]>>] ELSE a[x]]

\* the out buffer at the start of a call: freshly allocated or the caller's
\* buffer, holding f in the cells it does not share with arr
InitialOut(k, al, a, f) ==
  IF ~al THEN jit_allocate_out(out_shape(k), f)
  ELSE IF k.op = "laplace" THEN a
  ELSE IF k.op = "gradient"
    THEN [x \in CompCells(k) |-> IF x[1] = 0 THEN a[<<x[2], x[3]>>] ELSE f]
  ELSE [x \in Cells(k) |-> a[<<0, x[1], x[2]>>]]

\* the loop run in order (range in place of prange) on input a, output o
\* sharing memory as al says, with bey behind the input: the final memory
RECURSIVE SeqBlocks(_, _, _, _, _)
SeqBlocks(k, m, bey, j, p) ==
  IF j = k.dim_z THEN m
  ELSE IF p = NumBlocks(k) THEN SeqBlocks(k, m, bey, j + 1, 0)
  ELSE LET kind == BlockKind(k, p)
           i == BlockRadius(k, p)
           oob == OutOfBounds(k, kind, i, j)
           g == IF oob = {} THEN Q(0) ELSE bey[(CHOOSE x \in oob : TRUE)[2]]
           o2 == Overwrite(m.out, Writes(k, m.arr, g, kind, i, j))
       IN  SeqBlocks(k, [arr |-> Sync(k, m.aliased, m.arr, o2), out |-> o2,
                         aliased |-> m.aliased], bey, j, p + 1)

sequential(k, a, o, al, bey) ==
  SeqBlocks(k, [arr |-> a, out |-> o, aliased |-> al], bey, 0, 0).out

(***************************************************************************)
(* The calls a composed kernel makes: component kernel c is applied to the *)
(* view arr[c] and writes through the view out[:, c] (vector_gradient) or  *)
(* out[c] (vector_laplace, tensor_divergence)                              *)
(***************************************************************************)
ComposedOps == {"vector_gradient", "vector_laplace", "tensor_divergence"}

\* the kernel whose loop runs: k itself, or its component kernel c
Component(k, c) == IF k.op \in ScalarOps THEN k ELSE k.comps[c + 1]

\* the array that kernel is applied to: a itself, or the view a[c]
SubArr(k, a, c) ==
  IF k.op \in ScalarOps THEN a
  ELSE IF k.op = "tensor_divergence"
    THEN [x \in CompCells(k) |-> a[<<c, x[1], x[2], x[3]>>]]
  ELSE [x \in Cells(k) |-> a[<<c, x[1], x[2]>>]]

\* the cell of out behind cell x of the out that kernel is handed
Slot(k, c, x) ==
  IF k.op \in ScalarOps THEN x
  ELSE IF k.op = "vector_gradient" THEN <<x[1], c, x[2], x[3]>>
  ELSE <<c, x[1], x[2]>>

\* the view of out that kernel is handed
SubOut(k, o, c) == [x \in OutIdx(Component(k, c)) |-> o[Slot(k, c, x)]]

\* out after the assignments w made through that view
Store(k, c, o, w) ==
  [y \in DOMAIN o |->
     IF \E x \in DOMAIN w : Slot(k, c, x) = y
       THEN w[CHOOSE x \in DOMAIN w : Slot(k, c, x) = y]
       ELSE o[y]]

\* what lies in memory right behind the view a[c] of a vector field, in
\* column col: the first row of the next component
Behind(k, a, c, col) ==
  IF k.op \in {"vector_gradient", "vector_laplace"} /\ c < NumComp - 1
    THEN {a[<<c + 1, 0, col>>]}
    ELSE {}

(***************************************************************************)
(* Inputs of a call                                                        *)
(***************************************************************************)
\* a field that differs from cell to cell and from component to component
Dense(D) ==
  [x \in D |->
     LET n == Len(x)
     IN  Q((x[n - 1] + 1) * (x[n - 1] + 1) + 3 * x[n]
           + (IF n >= 3 THEN 5 * x[n - 2] ELSE 0)
           + (IF n = 4 THEN 11 * x[1] ELSE 0))]

\* the zero field with cell y raised to one
Impulse(D, y) == [x \in D |-> IF x = y THEN Q(1) ELSE Q(0)]

\* the zero field, every unit impulse, and a field that varies everywhere
InputsOn(D) ==
  {[x \in D |-> Q(0)], Dense(D)} \cup {Impulse(D, y) : y \in D}

Inputs(k) == IF k.op \in ScalarOps THEN InputsOn(ArrIdx(k)) ELSE {}

\* the field that varies everywhere, alone
Fields(k) == IF k.op \in ScalarOps THEN {Dense(ArrIdx(k))} ELSE {}

\* the inputs of calls that are repeated: the zero field and the field that
\* varies everywhere
Repeated(k) ==
  IF k.op \in ScalarOps
    THEN {[x \in ArrIdx(k) |-> Q(0)], Dense(ArrIdx(k))}
    ELSE {}

\* inputs of a composed kernel: the field that varies everywhere, and the
\* unit impulse in the first cell of each component
ComposedInputs(k) ==
  IF k.op \in ComposedOps
    THEN {Dense(ArrIdx(k))} \cup
         {Impulse(ArrIdx(k), y) :
            y \in {x \in ArrIdx(k) : \A n \in 2..Len(x) : x[n] = 0}}
    ELSE {}

\* what a cell of out holds before the call (uninitialised, or an older
\* result of the caller)
Stale == {Q(7)}

\* what the cells of a caller's out buffer may hold before a repeated call
Buffers == Stale \cup {Q(0)}

\* what an unchecked read behind the input array may return
Garbage == {Q(0), Q(5)}

\* a location behind the array that has not been read yet
Unread == <<0, 0>>

(***************************************************************************)
(* State                                                                   *)
(***************************************************************************)
VARIABLES
  boundscheck,  \* does the kernel check array indices (JIT disabled)?
                \* "unknown" until the first index outside an array
  made,         \* the latest make_operator call: op, bcs, builder, err
  kernel,       \* the kernel it returned, NoKernel if it raised
  pc,           \* "idle", "running", "done" (returned), "failed" (raised)
  raised,       \* the error of the call, "none" if none
  arr,          \* the input array of the call
  out,          \* the output array of the call
  aliased,      \* does out share memory with arr? (see Sync)
  fill,         \* what out held in its own cells when the call started
  pos,          \* pos[j]: the next block of axial iteration j
  beyond,       \* beyond[j]: the value read behind the array in column j
  comp,         \* the component kernel under way in a composed kernel's call
  results       \* the arrays the caller has kept: input |-> array returned

vars == <<boundscheck, made, kernel, pc, raised, arr, out, aliased, fill,
          pos, beyond, comp, results>>

\* the kernel whose loop is under way, and the array it reads
Active == Component(kernel, comp)

ActiveArr == SubArr(kernel, arr, comp)

NoCall ==
  /\ pc' = "idle"
  /\ raised' = "none"
  /\ arr' = <<>>
  /\ out' = <<>>
  /\ aliased' = FALSE
  /\ fill' = Q(0)
  /\ pos' = <<>>
  /\ beyond' = <<>>
  /\ comp' = 0

Init ==
  /\ boundscheck = "unknown"
  /\ made = [op |-> "none", builder |-> "none", err |-> "none"]
  /\ kernel = NoKernel
  /\ pc = "idle"
  /\ raised = "none"
  /\ arr = <<>>
  /\ out = <<>>
  /\ aliased = FALSE
  /\ fill = Q(0)
  /\ pos = <<>>
  /\ beyond = <<>>
  /\ comp = 0
  /\ results = <<>>

(***************************************************************************)
(* Actions                                                                 *)
(***************************************************************************)
\* kernel = make_operator(op, bcs)
MakeOperator(op, bcs) ==
  /\ pc = "idle"
  /\ made.op = "none"
  /\ LET r == make_operator(op, bcs)
     IN  /\ made' = [op |-> op, bcs |-> bcs, builder |-> r.builder,
                     err |-> r.err]
         /\ kernel' = r.kernel
  /\ NoCall
  /\ boundscheck' = "unknown"
  /\ results' = <<>>

\* kernel = make_vector_laplace(bcs): the builder make_operator has no
\* name for, called directly
MakeVectorLaplace(bcs) ==
  /\ pc = "idle"
  /\ made.op = "none"
  /\ LET r == make_vector_laplace(bcs)
     IN  /\ made' = [op |-> "vector_laplace", bcs |-> bcs,
                     builder |-> "make_vector_laplace", err |-> r.err]
         /\ kernel' = r.kernel
  /\ NoCall
  /\ boundscheck' = "unknown"
  /\ results' = <<>>

\* kernel(input) or kernel(input, out=buffer), input one of the arrays I:
\* the loop starts on the input and on an out buffer that shares memory
\* with it (al) or does not
Call(al, f, I) ==
  /\ pc = "idle"
  /\ kernel.op \in ScalarOps
  /\ \E input \in I :
        /\ arr' = input
        /\ out' = InitialOut(kernel, al, input, f)
  /\ aliased' = al
  /\ fill' = f
  /\ beyond' = [j \in 0..(kernel.dim_z - 1) |-> Unread]
  /\ pc' = "running"
  /\ raised' = "none"
  /\ pos' = [j \in 0..(kernel.dim_z - 1) |-> 0]
  /\ comp' = 0
  /\ UNCHANGED <<boundscheck, made, kernel, results>>

\* kernel(input) for a composed kernel: out is allocated with out_shape,
\* then the component kernels are called one after the other
CallComposed(f) ==
  /\ pc = "idle"
  /\ kernel.op \in ComposedOps
  /\ \E input \in ComposedInputs(kernel) : arr' = input
  /\ out' = jit_allocate_out(out_shape(kernel), f)
  /\ aliased' = FALSE
  /\ fill' = f
  /\ beyond' = [j \in 0..(kernel.dim_z - 1) |-> Unread]
  /\ pc' = "running"
  /\ raised' = "none"
  /\ pos' = [j \in 0..(kernel.dim_z - 1) |-> 0]
  /\ comp' = 0
  /\ UNCHANGED <<boundscheck, made, kernel, results>>

\* may axial iteration j take its next block?  prange runs the iterations
\* concurrently when parallel, in order otherwise
Runnable(j) ==
  /\ pc = "running"
  /\ j \in DOMAIN pos
  /\ pos[j] < NumBlocks(Active)
  /\ Active.parallel \/ \A j2 \in 0..(j - 1) : pos[j2] = NumBlocks(Active)

\* one block of iteration j: its reads, then its assignments to out
Block(kind, j) ==
  /\ LET i == BlockRadius(Active, pos[j])
         oob == OutOfBounds(Active, kind, i, j)
         col == IF oob = {} THEN j ELSE (CHOOSE x \in oob : TRUE)[2]
     IN  \/ /\ oob # {}
            /\ boundscheck \in {"unknown", "on"}
            /\ boundscheck' = "on"
            /\ pc' = "failed"
            /\ raised' = "IndexError"
            /\ UNCHANGED <<arr, out, pos, beyond>>
         \/ /\ oob # {} => boundscheck \in {"unknown", "off"}
            /\ boundscheck' = IF oob # {} THEN "off" ELSE boundscheck
            /\ \E gv \in (IF oob = {} THEN {Unread}
                           ELSE IF beyond[col] = Unread
                             THEN Garbage \cup Behind(kernel, arr, comp, col)
                           ELSE {beyond[col]}) :
                  /\ beyond' = IF oob = {} THEN beyond
                               ELSE [beyond EXCEPT ![col] = gv]
                  /\ out' = Store(kernel, comp, out,
                                   Writes(Active, ActiveArr, gv, kind, i, j))
                  /\ arr' = Sync(kernel, aliased, arr, out')
                  /\ pos' = [pos EXCEPT ![j] = @ + 1]
                  /\ UNCHANGED <<pc, raised>>
  /\ UNCHANGED <<made, kernel, aliased, fill, comp, results>>

\* the block of the innermost radial cell, i = 0
InnerBlock(j) ==
  /\ Runnable(j)
  /\ BlockKind(Active, pos[j]) = "inner"
  /\ Block("inner", j)

\* the block of one cell of range(1, dim_r - 1)
BulkBlock(j) ==
  /\ Runnable(j)
  /\ BlockKind(Active, pos[j]) = "bulk"
  /\ Block("bulk", j)

\* the block of the outermost radial cell, i = dim_r - 1
OuterBlock(j) ==
  /\ Runnable(j)
  /\ BlockKind(Active, pos[j]) = "outer"
  /\ Block("outer", j)

\* a component kernel of a composed kernel has returned: the next one is
\* called
NextComponent ==
  /\ pc = "running"
  /\ kernel.op \in ComposedOps
  /\ comp < NumComp - 1
  /\ \A j \in DOMAIN pos : pos[j] = NumBlocks(Active)
  /\ comp' = comp + 1
  /\ pos' = [j \in DOMAIN pos |-> 0]
  /\ beyond' = [j \in DOMAIN beyond |-> Unread]
  /\ UNCHANGED <<boundscheck, made, kernel, pc, raised, arr, out, aliased,
                 fill, results>>

\* return out
Return ==
  /\ pc = "running"
  /\ kernel.op \in ScalarOps \/ comp = NumComp - 1
  /\ \A j \in DOMAIN pos : pos[j] = NumBlocks(Active)
  /\ pc' = "done"
  /\ UNCHANGED <<boundscheck, made, kernel, raised, arr, out, aliased, fill,
                 pos, beyond, comp, results>>

\* the caller is done with the arrays of a call that returned or raised
Release ==
  /\ pc \in {"done", "failed"}
  /\ NoCall
  /\ UNCHANGED <<boundscheck, made, kernel, results>>

\* the caller keeps the array a call returned, unless it holds one for the
\* same input already
Keep ==
  /\ pc = "done"
  /\ results' = IF arr \in DOMAIN results THEN results
                ELSE [a \in DOMAIN results \cup {arr} |->
                        IF a = arr THEN out ELSE results[a]]
  /\ NoCall
  /\ UNCHANGED <<boundscheck, made, kernel>>

\* the caller drops the kernel (or the error) of the latest construction
Discard ==
  /\ pc = "idle"
  /\ made.op # "none"
  /\ made' = [op |-> "none", builder |-> "none", err |-> "none"]
  /\ kernel' = NoKernel
  /\ boundscheck' = "unknown"
  /\ results' = <<>>
  /\ UNCHANGED <<pc, raised, arr, out, aliased, fill, pos, beyond, comp>>

Next ==
  \/ \E op \in OpNames, bcs \in BoundariesSet : MakeOperator(op, bcs)
  \/ \E al \in BOOLEAN, f \in Stale : Call(al, f, Inputs(kernel))
  \/ \E j \in 0..(MaxZ - 1) : InnerBlock(j)
  \/ \E j \in 0..(MaxZ - 1) : BulkBlock(j)
  \/ \E j \in 0..(MaxZ - 1) : OuterBlock(j)
  \/ Return
  \/ Release
  \/ Discard

Spec == Init /\ [][Next]_vars

\* every builder and every kernel, each kernel applied to freshly allocated
\* or separate out arrays
NextKernels ==
  \/ \E op \in OpNames, bcs \in BoundariesSet : MakeOperator(op, bcs)
  \/ \E bcs \in BoundariesSet : MakeVectorLaplace(bcs)
  \/ \E f \in Stale : Call(FALSE, f, Fields(kernel))
  \/ \E f \in Stale : CallComposed(f)
  \/ \E j \in 0..(MaxZ - 1) : InnerBlock(j)
  \/ \E j \in 0..(MaxZ - 1) : BulkBlock(j)
  \/ \E j \in 0..(MaxZ - 1) : OuterBlock(j)
  \/ NextComponent
  \/ Return
  \/ Release
  \/ Discard

SpecKernels == Init /\ [][NextKernels]_vars

\* one kernel called again and again, on the same or on another input, into
\* buffers of different contents, the caller keeping the arrays returned
NextRepeat ==
  \/ \E op \in OpNames, bcs \in BoundariesSet : MakeOperator(op, bcs)
  \/ \E f \in Buffers : Call(FALSE, f, Repeated(kernel))
  \/ \E j \in 0..(MaxZ - 1) : InnerBlock(j)
  \/ \E j \in 0..(MaxZ - 1) : BulkBlock(j)
  \/ \E j \in 0..(MaxZ - 1) : OuterBlock(j)
  \/ Return
  \/ Keep
  \/ Release
  \/ Discard

SpecRepeat == Init /\ [][NextRepeat]_vars

\* the laplace kernels of grids without flux through their faces
NextNoFlux ==
  \/ \E op \in {"laplace", "laplacian"}, bcs \in NoFluxBoundaries :
        MakeOperator(op, bcs)
  \/ \E f \in Stale : Call(FALSE, f, Inputs(kernel))
  \/ \E j \in 0..(MaxZ - 1) : InnerBlock(j)
  \/ \E j \in 0..(MaxZ - 1) : BulkBlock(j)
  \/ \E j \in 0..(MaxZ - 1) : OuterBlock(j)
  \/ Return
  \/ Release
  \/ Discard

SpecNoFlux == Init /\ [][NextNoFlux]_vars

(***************************************************************************)
(* Properties                                                              *)
(***************************************************************************)
\* the call has returned out
Returned == pc = "done"

\* out and arr do not share memory
Separate == ~aliased

AxialIndices == 0..(kernel.dim_z - 1)

RadialIndices == 0..(kernel.dim_r - 1)

\* C1: the gradient kernel on a grid with dim_r >= 2 writes to out[0, 0, j],
\* for every axial index j, the forward difference of the input in the same
\* axial column, (u[1, j] - u[0, j]) / (2 dr).
C1_InnerRadialForwardDifference ==
  (Returned /\ Separate /\ kernel.op = "gradient" /\ kernel.dim_r >= 2) =>
    \A j \in AxialIndices :
      out[<<0, 0, j>>] =
        Div(Sub(arr[<<1, j>>], arr[<<0, j>>]), Mul(Q(2), kernel.dr))

\* the input of the laplace stencil at radial index i: the reflected cell
\* behind the axis, the virtual point behind the outer face
LaplaceNeighbour(i, j) ==
  IF i = -1 THEN arr[<<0, j>>]
  ELSE IF i = kernel.dim_r THEN value_outer(kernel, arr, kernel.dim_r - 1, j)
  ELSE arr[<<i, j>>]

LaplaceStencil(i, j) ==
  LET z == region_z(kernel, arr, i, j)
      u == arr[<<i, j>>]
      lo == LaplaceNeighbour(i - 1, j)
      hi == LaplaceNeighbour(i + 1, j)
      dr2 == Mul(kernel.dr, kernel.dr)
      dz2 == Mul(kernel.dz, kernel.dz)
  IN  Add(Add(Div(Add(Sub(hi, Mul(Q(2), u)), lo), dr2),
              Div(Sub(hi, lo), Mul(Q(2 * i + 1), dr2))),
          Div(Add(Sub(z[1], Mul(Q(2), u)), z[3]), dz2))

\* C2: on a grid with dim_r >= 2 every cell of the laplace kernel's output is
\* the cylindrical stencil, with u[-1, j] = u[0, j] at i = 0 (so that
\* lap[0, j] = 2 (u[1, j] - u[0, j]) / dr^2 + axial term) and the outer
\* virtual point for u[dim_r, j] at i = dim_r - 1.
C2_LaplaceStencil ==
  (Returned /\ Separate /\ kernel.op = "laplace" /\ kernel.dim_r >= 2) =>
    /\ \A i \in RadialIndices, j \in AxialIndices :
         out[<<i, j>>] = LaplaceStencil(i, j)
    /\ \A j \in AxialIndices :
         LET z == region_z(kernel, arr, 0, j)
         IN  out[<<0, j>>] =
               Add(Div(Mul(Q(2), Sub(arr[<<1, j>>], arr[<<0, j>>])),
                       Mul(kernel.dr, kernel.dr)),
                   Div(Add(Sub(z[1], Mul(Q(2), z[2])), z[3]),
                       Mul(kernel.dz, kernel.dz)))

\* a laplace call on three radial cells, on a field that varies, has returned
C2_Witness ==
  /\ Returned /\ Separate /\ kernel.op = "laplace"
  /\ kernel.dim_r = 3 /\ kernel.dim_z = 2
  /\ arr = Dense(Cells(kernel))
  /\ out[<<0, 1>>] # Q(0) /\ out[<<2, 0>>] # Q(0)

DivergenceRadial(i, j) ==
  LET ur == Comp(arr, kernel, 0)
      two_dr == Mul(Q(2), kernel.dr)
      hi == IF i = kernel.dim_r - 1
              THEN value_outer(kernel, ur, i, j)
              ELSE ur[<<i + 1, j>>]
  IN  IF i = 0
        THEN Div(Add(ur[<<1, j>>], Mul(Q(3), ur[<<0, j>>])), two_dr)
        ELSE Add(Div(Sub(hi, ur[<<i - 1, j>>]), two_dr),
                 Div(ur[<<i, j>>], Mul(Norm(2 * i + 1, 2), kernel.dr)))

DivergenceAxial(i, j) ==
  LET z == region_z(kernel, Comp(arr, kernel, 1), i, j)
  IN  Div(Sub(z[3], z[1]), Mul(Q(2), kernel.dz))

\* C3: on a grid with dim_r >= 2 every cell of the divergence kernel's
\* output is d_r + d_z with d_z = (zh - zl) / (2 dz) of the axial component
\* and d_r = (u_r[1, j] + 3 u_r[0, j]) / (2 dr) at i = 0, the central
\* difference plus u_r[i, j] / ((i + 0.5) dr) elsewhere, the outer virtual
\* point of the radial component standing for u_r[dim_r, j].
C3_DivergenceStencil ==
  (Returned /\ Separate /\ kernel.op = "divergence" /\ kernel.dim_r >= 2) =>
    \A i \in RadialIndices, j \in AxialIndices :
      out[<<i, j>>] = Add(DivergenceRadial(i, j), DivergenceAxial(i, j))

\* a divergence call on three radial cells, on a field that varies, has
\* returned
C3_Witness ==
  /\ Returned /\ Separate /\ kernel.op = "divergence"
  /\ kernel.dim_r = 3 /\ kernel.dim_z = 2
  /\ arr = Dense(CompCells(kernel))
  /\ out[<<0, 0>>] # Q(0) /\ out[<<2, 1>>] # Q(0)

\* C4: on a grid with dim_r == 1 the laplace kernel skips the radial
\* contribution: out[0, j] is the axial second difference
\* (zl - 2 u[0, j] + zh) / dz^2 for every j.
C4_SingleRadialPointIsAxial ==
  (Returned /\ Separate /\ kernel.op = "laplace" /\ kernel.dim_r = 1) =>
    \A j \in AxialIndices :
      LET z == region_z(kernel, arr, 0, j)
      IN  out[<<0, j>>] =
            Div(Add(Sub(z[1], Mul(Q(2), z[2])), z[3]),
                Mul(kernel.dz, kernel.dz))

\* C5: for each scalar kernel, the same grid and the same input, the axial
\* iterations run concurrently in any interleaving leave in out what the
\* loop run in order leaves: whenever an iteration j has finished, slice j of
\* out holds the values of the sequential run, whatever the other iterations
\* have done so far.
C5_ParallelEqualsSequential ==
  (pc \in {"running", "done"} /\ Separate
     /\ (Returned \/ kernel.dim_r >= 2)) =>
    LET seq == sequential(kernel, arr, InitialOut(kernel, FALSE, arr, fill),
                          FALSE, beyond)
    IN  \A x \in OutIdx(kernel) :
          pos[x[Len(x)]] = NumBlocks(kernel) => out[x] = seq[x]

\* a parallel kernel has finished a later axial iteration while an earlier
\* one is still under way
C5_Witness ==
  /\ pc = "running" /\ Separate /\ kernel.parallel
  /\ pos[1] = NumBlocks(kernel)
  /\ pos[0] > 0 /\ pos[0] < NumBlocks(kernel)
  /\ arr = Dense(ArrIdx(kernel))

SupportedNames ==
  {"laplace", "laplacian", "gradient", "divergence", "vector_gradient",
   "tensor_divergence"}

\* C6: make_operator hands laplace and laplacian to make_laplace, gradient to
\* make_gradient, divergence to make_divergence, vector_gradient to
\* make_vector_gradient and tensor_divergence to make_tensor_divergence, the
\* kernel returned being the one of that builder; any other name, such as
\* vector_laplace, fails with the unsupported-operator error and no kernel.
C6_Dispatch ==
  made.op # "none" =>
    /\ made.op \in {"laplace", "laplacian"} =>
         /\ made.builder = "make_laplace"
         /\ made.err = "none" => kernel.op = "laplace"
    /\ made.op = "gradient" =>
         /\ made.builder = "make_gradient"
         /\ made.err = "none" => kernel.op = "gradient"
    /\ made.op = "divergence" =>
         /\ made.builder = "make_divergence"
         /\ made.err = "none" => kernel.op = "divergence"
    /\ made.op = "vector_gradient" =>
         /\ made.builder = "make_vector_gradient"
         /\ made.err = "none" =>
              /\ kernel.op = "vector_gradient"
              /\ \A c \in 1..NumComp : kernel.comps[c].op = "gradient"
    /\ made.op = "tensor_divergence" =>
         /\ made.builder = "make_tensor_divergence"
         /\ made.err = "none" =>
              /\ kernel.op = "tensor_divergence"
              /\ \A c \in 1..NumComp : kernel.comps[c].op = "divergence"
    /\ made.op \notin SupportedNames =>
         /\ made.builder = "none"
         /\ made.err = "NotImplementedError"
         /\ kernel = NoKernel

\* make_operator has refused vector_laplace on conditions its builder accepts
C6_Witness ==
  /\ made.op = "vector_laplace"
  /\ made.bcs.grid = "CylindricalGrid" /\ made.bcs.rank = 1
  /\ made.err = "NotImplementedError"
  /\ kernel = NoKernel

ExpectedRank(op) ==
  IF op \in {"vector_gradient", "tensor_divergence"} THEN 1 ELSE 0

RankMismatch ==
  /\ made.op \in SupportedNames
  /\ made.bcs.rank # ExpectedRank(made.op)

\* C7 as stated: for every supported operator name, conditions whose rank
\* differs from the expected one make construction fail with the
\* rank-mismatch error, and no kernel is returned.
C7_RankMismatchError ==
  RankMismatch => (made.err = "RankError" /\ kernel = NoKernel)

\* C7: the rank is enforced in the builder make_operator dispatched to,
\* after the builder's assertion on the grid type: for every supported
\* operator name, conditions whose rank differs from the expected one make
\* construction fail with no kernel returned, with the rank-mismatch error
\* when the grid is a CylindricalGrid and the assertion error otherwise.
C7_RankEnforcedInBuilder ==
  RankMismatch =>
    /\ kernel = NoKernel
    /\ made.builder # "none"
    /\ made.err = IF made.bcs.grid = "CylindricalGrid"
                    THEN "RankError" ELSE "AssertionError"

\* a scalar builder has refused the conditions of a vector field
C7_Witness ==
  /\ made.op = "laplace"
  /\ made.bcs.grid = "CylindricalGrid" /\ made.bcs.rank = 1
  /\ made.builder = "make_laplace"
  /\ made.err = "RankError"
  /\ kernel = NoKernel

\* C8: no call of a scalar kernel returns with out sharing memory with the
\* input array.
C8_NoAliasedCallReturns ==
  Returned => Separate

\* C9: after a call of the gradient kernel, on every grid with dim_r >= 1,
\* out[2, i, j] is exactly zero in every cell, whatever out held before.
C9_AzimuthalZero ==
  (Returned /\ kernel.op = "gradient") =>
    \A i \in RadialIndices, j \in AxialIndices : out[<<2, i, j>>] = Q(0)

\* a gradient call on a single radial point has returned, into a buffer
\* that held non-zero values
C9_Witness ==
  /\ Returned /\ kernel.op = "gradient" /\ kernel.dim_r = 1
  /\ Separate /\ fill # Q(0)

\* C10: for the gradient kernel on a grid with dim_r >= 2, out[1, i, j] is
\* (zh - zl) / (2 dz) in every cell; out[0, i, j] is the central difference
\* (u[i+1, j] - u[i-1, j]) / (2 dr) for 1 <= i <= dim_r - 2, and
\* (v - u[dim_r-2, j]) / (2 dr) at i = dim_r - 1, v the outer virtual point.
C10_GradientStencil ==
  (Returned /\ Separate /\ kernel.op = "gradient" /\ kernel.dim_r >= 2) =>
    \A i \in RadialIndices, j \in AxialIndices :
      LET z == region_z(kernel, arr, i, j)
          v == value_outer(kernel, arr, kernel.dim_r - 1, j)
          two_dr == Mul(Q(2), kernel.dr)
      IN  /\ out[<<1, i, j>>] = Div(Sub(z[3], z[1]), Mul(Q(2), kernel.dz))
          /\ (1 <= i /\ i <= kernel.dim_r - 2) =>
               out[<<0, i, j>>] =
                 Div(Sub(arr[<<i + 1, j>>], arr[<<i - 1, j>>]), two_dr)
          /\ i = kernel.dim_r - 1 =>
               out[<<0, i, j>>] =
                 Div(Sub(v, arr[<<kernel.dim_r - 2, j>>]), two_dr)

\* a gradient call on three radial cells, on a field that varies, has
\* returned
C10_Witness ==
  /\ Returned /\ Separate /\ kernel.op = "gradient"
  /\ kernel.dim_r = 3 /\ kernel.dim_z = 2
  /\ arr = Dense(Cells(kernel))
  /\ out[<<0, 1, 0>>] # Q(0) /\ out[<<0, 2, 1>>] # Q(0)
  /\ out[<<1, 0, 1>>] # Q(0)

\* (3,) + shape and (3, 3) + shape
ExpectedShape(op, shape) ==
  IF op \in {"laplace", "divergence"} THEN shape
  ELSE IF op \in {"gradient", "vector_laplace", "tensor_divergence"}
    THEN <<3>> \o shape
  ELSE <<3, 3>> \o shape

\* C11: the array a kernel call returns when it allocates out itself has
\* the shape the operator fixes: grid.shape for laplace and divergence,
\* (3,) + grid.shape for gradient, vector_laplace and tensor_divergence,
\* (3, 3) + grid.shape for vector_gradient.
C11_ReturnedShape ==
  (Returned /\ Separate) =>
    DOMAIN out = Indices(ExpectedShape(kernel.op, made.bcs.shape))

\* a vector_gradient call on a grid of two by two cells has returned nine
\* components
C11_Witness ==
  /\ Returned /\ kernel.op = "vector_gradient"
  /\ made.bcs.shape = <<2, 2>>
  /\ Cardinality(DOMAIN out) = 36
  /\ <<2, 2, 1, 1>> \in DOMAIN out

\* what in column j lies behind the array of a scalar kernel called alone
BeyondChoices(k) ==
  IF k.dim_r = 1 THEN [0..(k.dim_z - 1) -> Garbage]
  ELSE {[j \in 0..(k.dim_z - 1) |-> Unread]}

\* the arrays scalar kernel k can leave in a fresh out when applied to a
ScalarResults(k, a) ==
  {sequential(k, a, [x \in OutIdx(k) |-> fill], FALSE, bey) :
     bey \in BeyondChoices(k)}

\* C12: once component kernel c of a composed kernel has returned, the
\* slice of out it was handed (out[:, c] for vector_gradient, out[c] for
\* vector_laplace and tensor_divergence) holds a result of the scalar kernel
\* built from bcs.extract_component(c) applied to arr[c] alone: it does not
\* depend on the other components of arr.
C12_NoCrossComponentCoupling ==
  (pc \in {"running", "done"} /\ kernel.op \in ComposedOps) =>
    \A c \in 0..(NumComp - 1) :
      (c < comp \/ Returned) =>
        SubOut(kernel, out, c) \in
          ScalarResults(kernel.comps[c + 1], SubArr(kernel, arr, c))

\* iteration j takes a block in this step
BlockTaken(j) ==
  /\ pc = "running" /\ pc' = "running"
  /\ j \in DOMAIN pos /\ j \in DOMAIN pos'
  /\ pos'[j] = pos[j] + 1

\* cell <<i, j>>, its four immediate neighbours, and its axial neighbours
\* across the periodic seam
Neighbourhood(k, i, j) ==
  {<<i, j>>, <<i - 1, j>>, <<i + 1, j>>, <<i, j - 1>>, <<i, j + 1>>}
    \cup (IF k.bc_z.type = "periodic"
           THEN {<<i, (j + k.dim_z - 1) % k.dim_z>>, <<i, (j + 1) % k.dim_z>>}
           ELSE {})

\* C13: in a call of a scalar kernel whose out is separate from the input,
\* the block that computes output cell (i, j) reads only the input cells
\* (i, j), (i-1, j), (i+1, j), (i, j-1), (i, j+1) (the axial neighbours
\* taken across the seam when periodic); in particular no input cell whose
\* axial index differs from j by more than one.
C13_LocalReads ==
  [][\A j \in 0..(MaxZ - 1) :
       (BlockTaken(j) /\ Separate /\ kernel.op \in ScalarOps) =>
         LET i == BlockRadius(kernel, pos[j])
             rd == Reads(kernel, BlockKind(kernel, pos[j]), i, j)
         IN  /\ rd \subseteq Neighbourhood(kernel, i, j)
             /\ \A x \in rd :
                  \/ x[2] \in {j - 1, j, j + 1}
                  \/ /\ kernel.bc_z.type = "periodic"
                     /\ x[2] \in {(j + kernel.dim_z - 1) % kernel.dim_z,
                                  (j + 1) % kernel.dim_z}]_vars

\* C16: every index with which a block of the laplace, gradient or
\* divergence kernel reads the input array directly lies inside the array,
\* the radial index in 0..dim_r-1 and the axial index in 0..dim_z-1, on
\* every grid with dim_r >= 1 and dim_z >= 1.
C16_DirectIndicesInRange ==
  [][\A j \in 0..(MaxZ - 1) :
       (BlockTaken(j) /\ kernel.op \in ScalarOps) =>
         DirectReads(kernel, BlockKind(kernel, pos[j]),
                     BlockRadius(kernel, pos[j]), j) \subseteq Cells(kernel)]_vars

\* C14: the array a call of a kernel returns is a function of the call's
\* input only: it equals the array an earlier call of the same kernel on
\* the same input returned, whatever calls lay between the two and whatever
\* the out buffers held before the calls.
C14_ResultDependsOnInputOnly ==
  (Returned /\ Separate /\ arr \in DOMAIN results) => out = results[arr]

CellCount(k) == k.dim_r * k.dim_z

\* the cell count the strategy is chosen by
Threshold == PARALLELIZATION_THRESHOLD_2D * PARALLELIZATION_THRESHOLD_2D

\* a plain sequential loop: no axial iteration has started before the ones
\* before it have finished
InOrder ==
  \A j \in DOMAIN pos :
    pos[j] > 0 => \A j2 \in 0..(j - 1) : pos[j2] = NumBlocks(kernel)

\* C15 as stated: a scalar kernel fans out over the axial index exactly when
\* dim_r * dim_z exceeds the threshold and runs a plain sequential loop
\* otherwise, and no call changes the strategy of an existing kernel.
C15_ParallelIffExceeds ==
  [][/\ kernel'.op \in ScalarOps =>
          (kernel'.parallel <=> CellCount(kernel') > Threshold)
     /\ (kernel.op \in ScalarOps /\ kernel'.op \in ScalarOps) =>
          kernel'.parallel = kernel.parallel
     /\ (kernel'.op \in ScalarOps /\ ~kernel'.parallel /\ pc' = "running") =>
          InOrder']_vars

\* C15: the strategy of a scalar kernel is chosen once, at construction,
\* from the grid size alone: parallel fan-out over the axial index exactly
\* when dim_r * dim_z is at least the threshold (equal to it or above it),
\* a plain sequential loop otherwise; no call changes the strategy of an
\* existing kernel.
C15_StrategyFixedAtConstruction ==
  [][/\ kernel'.op \in ScalarOps =>
          (kernel'.parallel <=> CellCount(kernel') >= Threshold)
     /\ (kernel.op \in ScalarOps /\ kernel'.op \in ScalarOps) =>
          kernel'.parallel = kernel.parallel
     /\ (kernel'.op \in ScalarOps /\ ~kernel'.parallel /\ pc' = "running") =>
          InOrder']_vars

\* a kernel whose cell count equals the threshold has started its second
\* axial iteration before its first
C15_Witness ==
  /\ pc = "running" /\ kernel.op \in ScalarOps
  /\ CellCount(kernel) = Threshold
  /\ kernel.parallel
  /\ pos[0] = 0 /\ pos[1] > 0

\* the sum over the cells S of (2 i + 1) * o[i, j]: the discrete integral,
\* the volume of cell (i, j) being proportional to its radius (i + 0.5) dr
RECURSIVE VolumeSum(_, _)
VolumeSum(o, S) ==
  IF S = {} THEN Q(0)
  ELSE LET x == CHOOSE y \in S : TRUE
       IN  Add(Mul(Q(2 * x[1] + 1), o[x]), VolumeSum(o, S \ {x}))

NoFlux(k) ==
  /\ k.bc_r = [type |-> "derivative", value |-> 0]
  /\ \/ k.bc_z.type = "periodic"
     \/ k.bc_z = [type |-> "derivative", value |-> 0]

\* C17: the laplace kernel is conservative: on a grid with dim_r >= 2, a
\* zero-derivative outer radial condition and a periodic or zero-derivative
\* axial condition, the sum over all cells of (2 i + 1) * lap[i, j] is zero
\* for every input.
C17_ConservativeLaplace ==
  (Returned /\ Separate /\ kernel.op = "laplace" /\ kernel.dim_r >= 2
     /\ NoFlux(kernel)) =>
    VolumeSum(out, Cells(kernel)) = Q(0)

\* a laplace call without flux through the faces, on three radial cells and
\* a field that varies, has returned a field that is not zero
C17_Witness ==
  /\ Returned /\ Separate /\ kernel.op = "laplace" /\ NoFlux(kernel)
  /\ kernel.dim_r = 3 /\ kernel.dim_z = 2
  /\ kernel.bc_z.type = "derivative"
  /\ arr = Dense(Cells(kernel))
  /\ out[<<0, 0>>] # Q(0) /\ out[<<2, 1>>] # Q(0)

====
